---- MODULE Spec2Model ----
(***************************************************************************)
(* Model of SimpleRaytracing: main.cpp (ray_color and the render loop of   *)
(* main) and ray.h (class ray).                                            *)
(*                                                                         *)
(* double values are exact rationals <<n, d>> with d > 0 in lowest terms.  *)
(* The headers that main.cpp includes but that are not part of the         *)
(* sources at hand (vec3.h, camera.h, material.h, sphere.h,                *)
(* hittable_list.h, colour.h) are modelled from their specification; the   *)
(* geometry and the random numbers they depend on are nondeterministic     *)
(* choices from small sets.                                                *)
(***************************************************************************)
EXTENDS Integers, Sequences, FiniteSets, TLC

(* ------------------------------ bounds -------------------------------- *)

\* image_width of main (800 in the source), scaled down
image_width == 4

\* samples_per_pixel of main (250 in the source), scaled down
samples_per_pixel == 2

\* max_depth of main (10 in the source), scaled down
max_depth == 1

\* largest starting depth of a stand-alone ray_color call (RaySpec)
MaxStartDepth == 4

(* --------------------------- double arithmetic ------------------------ *)

Abs(n) == IF n < 0 THEN -n ELSE n

RECURSIVE GCD(_, _)
GCD(a, b) == IF b = 0 THEN a ELSE GCD(b, a % b)

Rat(n, d) ==
    LET g == GCD(Abs(n), d)
    IN  IF n = 0 THEN <<0, 1>> ELSE <<n \div g, d \div g>>

\* sums and comparisons go through the least common denominator and
\* products cancel crosswise first, so that intermediate values stay small
RAdd(a, b) ==
    LET g == GCD(a[2], b[2])
    IN  Rat(a[1] * (b[2] \div g) + b[1] * (a[2] \div g), (a[2] \div g) * b[2])

RSub(a, b) == RAdd(a, <<-b[1], b[2]>>)

RMul(a, b) ==
    LET g1 == GCD(b[2], Abs(a[1]))
        g2 == GCD(a[2], Abs(b[1]))
    IN  Rat((a[1] \div g1) * (b[1] \div g2), (a[2] \div g2) * (b[2] \div g1))

\* a / b, b # 0
RDiv(a, b) ==
    IF b[1] > 0 THEN Rat(a[1] * b[2], a[2] * b[1])
                ELSE Rat(-(a[1] * b[2]), a[2] * (-b[1]))

RLe(a, b) ==
    LET g == GCD(a[2], b[2])
    IN  a[1] * (b[2] \div g) <= b[1] * (a[2] \div g)

RLt(a, b) ==
    LET g == GCD(a[2], b[2])
    IN  a[1] * (b[2] \div g) < b[1] * (a[2] \div g)

Zero == <<0, 1>>

One == <<1, 1>>

Half == <<1, 2>>

\* integer square root of a perfect square
ISqrt(n) == CHOOSE k \in 0..n : k * k = n

\* sqrt of a rational whose numerator and denominator are perfect squares
RSqrt(a) == <<ISqrt(a[1]), ISqrt(a[2])>>

(* -------------------------------- vec3 -------------------------------- *)

Vec(x, y, z) == <<x, y, z>>

\* vec3() : e{0,0,0}
DefaultVec == Vec(Zero, Zero, Zero)

VAdd(a, b) == Vec(RAdd(a[1], b[1]), RAdd(a[2], b[2]), RAdd(a[3], b[3]))

\* t * v
VScale(t, a) == Vec(RMul(t, a[1]), RMul(t, a[2]), RMul(t, a[3]))

\* component-wise product (colour tinting)
VMul(a, b) == Vec(RMul(a[1], b[1]), RMul(a[2], b[2]), RMul(a[3], b[3]))

length_squared(a) == RAdd(RAdd(RMul(a[1], a[1]), RMul(a[2], a[2])), RMul(a[3], a[3]))

length(a) == RSqrt(length_squared(a))

\* v / v.length()
unit_vector(a) ==
    LET l == length(a)
    IN  Vec(RDiv(a[1], l), RDiv(a[2], l), RDiv(a[3], l))

color(r, g, b) == Vec(r, g, b)

Black == color(Zero, Zero, Zero)

White == color(One, One, One)

SkyBlue == color(<<1, 2>>, <<7, 10>>, One)

(* -------------------------------- ray --------------------------------- *)

\* ray(const point3& origin, const vec3& direction)
ray(origin, direction) == [m_origin |-> origin, m_direction |-> direction]

\* ray() {}: both members default-constructed
DefaultRay == ray(DefaultVec, DefaultVec)

origin(r) == r.m_origin

direction(r) == r.m_direction

atNoScale(r, t) == VAdd(r.m_origin, r.m_direction)

\* point3 at(double t) const
at(r, t) == VAdd(r.m_origin, VScale(t, r.m_direction))

(* ------------------------------ materials ----------------------------- *)

lambertian(albedo) == [kind |-> "lambertian", albedo |-> albedo, fuzz |-> Zero, ir |-> One]

metal(albedo, fuzz) == [kind |-> "metal", albedo |-> albedo, fuzz |-> fuzz, ir |-> One]

dielectric(ir) == [kind |-> "dielectric", albedo |-> White, fuzz |-> Zero, ir |-> ir]

\* the materials main constructs, by the name of main's variable
Materials ==
    [ material_ground     |-> lambertian(color(<<3, 10>>, Zero, <<2, 5>>)),
      material_lambertian |-> lambertian(color(<<9, 10>>, <<1, 10>>, <<3, 5>>)),
      material_dialectric |-> dielectric(<<3, 2>>),
      material_metal      |-> metal(color(<<7, 10>>, <<7, 10>>, <<7, 10>>), <<1, 5>>),
      material_fuzzyMetal |-> metal(color(<<7, 10>>, <<7, 10>>, <<7, 10>>), <<9, 10>>),
      material_bronze     |-> metal(color(<<4, 5>>, <<9, 20>>, <<3, 10>>), <<3, 5>>),
      material_redMetal   |-> metal(color(One, Zero, Zero), <<1, 10>>) ]

sphere(cen, r, m) == [center |-> cen, radius |-> r, mat_ptr |-> m]

\* the arguments of the world.add calls of main, in program order
SceneSpheres ==
    << sphere(Vec(Zero, <<-2001, 2>>, <<-1, 1>>), <<1000, 1>>, "material_ground"),
       sphere(Vec(Zero, Zero, <<-1, 1>>), <<1, 2>>, "material_lambertian"),
       sphere(Vec(<<-1, 1>>, Zero, <<-1, 1>>), <<1, 2>>, "material_dialectric"),
       sphere(Vec(<<-1, 1>>, Zero, <<-1, 1>>), <<-49, 100>>, "material_dialectric"),
       sphere(Vec(<<-1, 1>>, Zero, <<-1, 1>>), <<1, 5>>, "material_bronze"),
       sphere(Vec(One, Zero, <<-1, 1>>), <<1, 2>>, "material_metal"),
       sphere(Vec(<<-6, 5>>, <<-3, 10>>, <<-3, 10>>), <<1, 5>>, "material_dialectric"),
       sphere(Vec(<<-3, 5>>, <<-3, 10>>, <<-3, 10>>), <<1, 5>>, "material_dialectric"),
       sphere(Vec(<<-3, 5>>, <<-3, 10>>, <<-3, 10>>), <<-19, 100>>, "material_dialectric"),
       sphere(Vec(Zero, <<-3, 10>>, <<-3, 10>>), <<1, 5>>, "material_fuzzyMetal"),
       sphere(Vec(<<3, 5>>, <<-3, 10>>, <<-3, 10>>), <<1, 5>>, "material_redMetal"),
       sphere(Vec(<<6, 5>>, <<-3, 10>>, <<-3, 10>>), <<1, 5>>, "material_bronze") >>

(* ------------------- nondeterministic inputs (oracles) ---------------- *)

\* directions a camera ray may take: straight down, and upwards with unit
\* y component 4/5
Dirs == { Vec(Zero, <<-1, 1>>, Zero), Vec(Zero, <<4, 1>>, <<-3, 1>>) }

\* directions a scattered ray may take
ScatterDirs == { Vec(Zero, <<4, 1>>, <<-3, 1>>) }

\* ray parameter of a reported hit, inside (0.001, infinity)
Ts == { <<2, 1>> }

\* values of random_double(), all inside [0, 1)
Randoms == { Zero, Half }

(* -------------------------------- state ------------------------------- *)

VARIABLES
    pc,           \* position of main
    world,        \* hittable_list world: the objects added so far
    cam,          \* the camera, once constructed
    out,          \* std::cout: the header and one entry per written pixel
    written,      \* arguments of the latest write_colour call
    i, j, s,      \* loop counters of main
    u, v,         \* arguments of the latest cam.get_ray call
    pixel_color,  \* accumulator of the pixel being rendered
    stack,        \* activation records of ray_color, outermost first
    ret,          \* value returned by the latest finished ray_color invocation
    samples,      \* history: top-level ray_color results of the current pixel
    path,         \* history: outcome of each invocation of the current top-level call
    calls,        \* history: number of invocations of the current top-level call
    depth0        \* history: depth argument of the current top-level call

vars == <<pc, world, cam, out, written, i, j, s, u, v, pixel_color,
          stack, ret, samples, path, calls, depth0>>

mainVars == <<pc, world, cam, out, written, i, j, s, u, v, pixel_color, samples>>

\* const int image_height = static_cast<int>(image_width / aspect_ratio)
image_height == (image_width * 9) \div 16

NoCamera == [built |-> FALSE, lookfrom |-> DefaultVec, lookat |-> DefaultVec,
             vup |-> DefaultVec, vfov |-> Zero, aspect_ratio |-> Zero, aperture |-> Zero]

\* camera cam(lookfrom, lookat, vup, 40, aspect_ratio, aperture, dist_to_focus)
camera ==
    [built |-> TRUE,
     lookfrom |-> Vec(<<7, 20>>, Half, <<2, 1>>),
     lookat |-> Vec(Zero, Zero, <<-3, 4>>),
     vup |-> Vec(Zero, <<7, 4>>, Zero),
     vfov |-> <<40, 1>>, aspect_ratio |-> <<16, 9>>, aperture |-> <<3, 40>>]

\* cam.get_ray(u, v): a ray from the lens towards the viewport point (u, v)
get_ray(c, uu, vv) == { ray(c.lookfrom, d) : d \in Dirs }

\* no write_colour call in progress
NoWrite == [pixel_color |-> Black, samples_per_pixel |-> 0]

NoRec == [p |-> DefaultVec, t |-> Zero, mat_ptr |-> "none"]

\* activation record of ray_color(r, world, depth) at its first statement
Frame(r, depth) ==
    [pc |-> "start", r |-> r, depth |-> depth, rec |-> NoRec,
     scattered |-> DefaultRay, attenuation |-> Black]

Top == stack[Len(stack)]

Pop == SubSeq(stack, 1, Len(stack) - 1)

SetTop(f) == [stack EXCEPT ![Len(stack)] = f]

(* ------------------------------ ray_color ----------------------------- *)

DepthBelowZero(depth) == depth < 0

\* if (depth <= 0)
DepthExhausted(depth) == depth <= 0

\* world.hit(r, 0.001, infinity, rec): the records a hit may fill in; a miss
\* is always possible too
hit(wld, r) ==
    { [p |-> at(r, t), t |-> t, mat_ptr |-> wld[k].mat_ptr] : k \in 1..Len(wld), t \in Ts }

\* rec.mat_ptr->scatter(r, rec, attenuation, scattered): the possible outcomes.
\* lambertian and dielectric always scatter, metal may absorb; the
\* attenuation is the albedo, (1,1,1) for a dielectric.
scatter(m, r_in, rec) ==
    { [ok |-> TRUE, attenuation |-> m.albedo, scattered |-> ray(rec.p, d)] : d \in ScatterDirs }
    \cup
    ( IF m.kind = "metal"
      THEN { [ok |-> FALSE, attenuation |-> Black, scattered |-> DefaultRay] }
      ELSE {} )

BackgroundShifted(r) ==
    LET unit_direction == unit_vector(direction(r))
        t == RMul(Half, RSub(unit_direction[2], One))
    IN  VAdd(VScale(RSub(One, t), White), VScale(t, SkyBlue))

\* the gradient returned when nothing is hit
Background(r) ==
    LET unit_direction == unit_vector(direction(r))
        t == RMul(Half, RAdd(unit_direction[2], One))
    IN  VAdd(VScale(RSub(One, t), White), VScale(t, SkyBlue))

RecursiveCallSameRay(f) == Frame(f.r, f.depth - 1)

RecursiveCallSameDepth(f) == Frame(f.scattered, f.depth)

\* ray_color(scattered, world, depth - 1)
RecursiveCall(f) == Frame(f.scattered, f.depth - 1)

ScatterResultSum(attenuation, sub) == VAdd(attenuation, sub)

\* attenuation * ray_color(...)
ScatterResult(attenuation, sub) == VMul(attenuation, sub)

Event(kind, att, r) == [kind |-> kind, attenuation |-> att, r |-> r]

\* return val: the activation record is dropped, the caller sees val
Return(val, kind) ==
    /\ stack' = Pop
    /\ ret' = val
    /\ path' = Append(path, Event(kind, Black, Top.r))
    /\ calls' = calls

\* depth test and world.hit, up to the declaration of scattered and attenuation
RayColorEnter ==
    /\ pc = "ray"
    /\ stack # <<>>
    /\ Top.pc = "start"
    /\ IF DepthExhausted(Top.depth)
       THEN Return(Black, "exhausted")
       ELSE \/ \E rec \in hit(world, Top.r) :
                 /\ stack' = SetTop([Top EXCEPT !.pc = "scatter", !.rec = rec,
                                                !.scattered = DefaultRay,
                                                !.attenuation = Black])
                 /\ UNCHANGED <<ret, path, calls>>
            \/ Return(Background(Top.r), "miss")
    /\ UNCHANGED <<mainVars, depth0>>

\* the scatter call and, when it scatters, the recursive call
RayColorScatter ==
    /\ pc = "ray"
    /\ stack # <<>>
    /\ Top.pc = "scatter"
    /\ \E o \in scatter(Materials[Top.rec.mat_ptr], Top.r, Top.rec) :
         IF o.ok
         THEN LET f == [Top EXCEPT !.pc = "call", !.scattered = o.scattered,
                                   !.attenuation = o.attenuation]
              IN  /\ stack' = Append(SetTop(f), RecursiveCall(f))
                  /\ path' = Append(path, Event("scattered", o.attenuation, Top.r))
                  /\ calls' = calls + 1
                  /\ ret' = ret
         ELSE Return(Black, "absorbed")
    /\ UNCHANGED <<mainVars, depth0>>

\* the recursive call has returned: return attenuation * its value
RayColorReturn ==
    /\ pc = "ray"
    /\ stack # <<>>
    /\ Top.pc = "call"
    /\ stack' = Pop
    /\ ret' = ScatterResult(Top.attenuation, ret)
    /\ UNCHANGED <<mainVars, path, calls, depth0>>

RayNext == RayColorEnter \/ RayColorScatter \/ RayColorReturn

(* --------------------------------- main ------------------------------- *)

rayVars == <<stack, ret, path, calls, depth0>>

WorldBuiltEarly(w) == Len(w) >= 1

\* all world.add calls of main have run
WorldBuilt(w) == Len(w) = Len(SceneSpheres)

\* world.add(make_shared<sphere>(...))
AddSphere ==
    /\ pc = "world"
    /\ ~WorldBuilt(world)
    /\ world' = Append(world, SceneSpheres[Len(world) + 1])
    /\ UNCHANGED <<pc, cam, out, written, i, j, s, u, v, pixel_color, samples, rayVars>>

\* camera cam(...)
MakeCamera ==
    /\ pc = "world"
    /\ WorldBuilt(world)
    /\ cam' = camera
    /\ pc' = "header"
    /\ UNCHANGED <<world, out, written, i, j, s, u, v, pixel_color, samples, rayVars>>

FirstRowOffByOne(h) == h

\* int j = image_height - 1
FirstRow(h) == h - 1

\* std::cout << "P3\n" << image_width << " " << image_height << "\n255\n"
WriteHeader ==
    /\ pc = "header"
    /\ out' = Append(out, <<"P3", image_width, image_height, 255>>)
    /\ j' = FirstRow(image_height)
    /\ pc' = "row"
    /\ UNCHANGED <<world, cam, written, i, s, u, v, pixel_color, samples, rayVars>>

\* for (int j = image_height - 1; j >= 0; --j), and Done after the last row
RowLoop ==
    /\ pc = "row"
    /\ IF j >= 0
       THEN /\ i' = 0
            /\ pc' = "pixel"
       ELSE /\ i' = i
            /\ pc' = "done"
    /\ UNCHANGED <<world, cam, out, written, j, s, u, v, pixel_color, samples, rayVars>>

PixelStartKept(prev) == prev

\* color pixel_color(0, 0, 0)
PixelStart(prev) == Black

\* for (int i = 0; i < image_width; ++i)
PixelLoop ==
    /\ pc = "pixel"
    /\ IF i < image_width
       THEN /\ pixel_color' = PixelStart(pixel_color)
            /\ samples' = <<>>
            /\ s' = 0
            /\ pc' = "sample"
            /\ j' = j
       ELSE /\ j' = j - 1
            /\ pc' = "row"
            /\ UNCHANGED <<pixel_color, samples, s>>
    /\ written' = NoWrite
    /\ UNCHANGED <<world, cam, out, i, u, v, rayVars>>

\* (i + random_double()) / (image_width - 1)
Coord(k, rnd, n) == RDiv(RAdd(<<k, 1>>, rnd), <<n - 1, 1>>)

\* for (int s = 0; s < samples_per_pixel; ++s): auto u = ..., auto v = ...
SampleStart ==
    /\ pc = "sample"
    /\ s < samples_per_pixel
    /\ \E r1 \in Randoms, r2 \in Randoms :
         /\ u' = Coord(i, r1, image_width)
         /\ v' = Coord(j, r2, image_height)
    /\ pc' = "get_ray"
    /\ UNCHANGED <<world, cam, out, written, i, j, s, pixel_color, samples, rayVars>>

\* ray r = cam.get_ray(u, v) and the call ray_color(r, world, max_depth);
\* u and v are not read again and are dropped from the state
CallRayColor ==
    /\ pc = "get_ray"
    /\ \E r \in get_ray(cam, u, v) :
         stack' = <<Frame(r, max_depth)>>
    /\ path' = <<>>
    /\ calls' = 1
    /\ depth0' = max_depth
    /\ u' = Zero
    /\ v' = Zero
    /\ pc' = "ray"
    /\ UNCHANGED <<world, cam, out, written, i, j, s, pixel_color, samples, ret>>

\* pixel_color += ray_color(r, world, max_depth)
SampleEnd ==
    /\ pc = "ray"
    /\ stack = <<>>
    /\ pixel_color' = VAdd(pixel_color, ret)
    /\ samples' = Append(samples, [value |-> ret, depth |-> depth0])
    /\ s' = s + 1
    /\ pc' = "sample"
    /\ ret' = Black
    /\ path' = <<>>
    /\ calls' = 0
    /\ depth0' = 0
    /\ UNCHANGED <<world, cam, out, written, i, j, u, v, stack>>

\* write_colour(std::cout, pixel_color, samples_per_pixel)
WritePixel ==
    /\ pc = "sample"
    /\ ~(s < samples_per_pixel)
    /\ out' = Append(out, <<"pixel", i, j>>)
    /\ written' = [pixel_color |-> pixel_color, samples_per_pixel |-> samples_per_pixel]
    /\ i' = i + 1
    /\ pc' = "pixel"
    /\ UNCHANGED <<world, cam, j, s, u, v, pixel_color, samples, rayVars>>

Init ==
    /\ pc = "world"
    /\ world = <<>>
    /\ cam = NoCamera
    /\ out = <<>>
    /\ written = NoWrite
    /\ i = 0
    /\ j = 0
    /\ s = 0
    /\ u = Zero
    /\ v = Zero
    /\ pixel_color = Black
    /\ samples = <<>>
    /\ stack = <<>>
    /\ ret = Black
    /\ path = <<>>
    /\ calls = 0
    /\ depth0 = 0

Next ==
    \/ AddSphere
    \/ MakeCamera
    \/ WriteHeader
    \/ RowLoop
    \/ PixelLoop
    \/ SampleStart
    \/ CallRayColor
    \/ RayColorEnter
    \/ RayColorScatter
    \/ RayColorReturn
    \/ SampleEnd
    \/ WritePixel

Spec == Init /\ [][Next]_vars

\* a stand-alone call ray_color(r, world, d) on the finished scene
RayInit ==
    /\ pc = "ray"
    /\ world = SceneSpheres
    /\ cam = camera
    /\ out = <<>>
    /\ written = NoWrite
    /\ i = 0
    /\ j = 0
    /\ s = 0
    /\ u = Zero
    /\ v = Zero
    /\ pixel_color = Black
    /\ samples = <<>>
    /\ \E r \in get_ray(camera, Zero, Zero), d \in (-1)..MaxStartDepth :
         /\ stack = <<Frame(r, d)>>
         /\ depth0 = d
    /\ ret = Black
    /\ path = <<>>
    /\ calls = 1

RaySpec == RayInit /\ [][RayNext]_vars

(* ------------------------------ properties ---------------------------- *)

InRayColor == pc = "ray" /\ stack # <<>>

InUnit(x) == RLe(Zero, x) /\ RLe(x, One)

\* the latest return was that of invocation number Len(stack) + 1
Returned == pc = "ray" /\ Len(path) > Len(stack) /\ (stack = <<>> \/ Top.pc = "call")

\* C1: an invocation of ray_color whose depth is <= 0 returns exactly
\* (0,0,0) as its next step, whatever the ray and although the scene would
\* report a hit.
C1_DepthExhaustedIsBlack ==
    [][ (InRayColor /\ Top.pc = "start" /\ Top.depth <= 0)
            => (stack' = Pop /\ ret' = Vec(<<0, 1>>, <<0, 1>>, <<0, 1>>)) ]_vars

C1_Witness ==
    /\ pc = "ray"
    /\ stack = <<>>
    /\ depth0 = 0
    /\ Len(path) = 1
    /\ path[1].kind = "exhausted"
    /\ hit(world, path[1].r) # {}
    /\ ret = Black

\* C2: an invocation with depth > 0 that reported a hit either (scatter
\* succeeded) calls ray_color once more, on its own scattered ray, on the
\* same world and with depth - 1, and then returns the component-wise
\* product of its attenuation with the value of that call, or (absorbed)
\* returns (0,0,0) without a further call.
C2_HitScatterRecursion ==
    [][ /\ (InRayColor /\ Top.pc = "scatter") =>
             /\ Top.depth > 0
             /\ world' = world
             /\ \/ /\ Len(stack') = Len(stack) + 1
                   /\ calls' = calls + 1
                   /\ LET caller == stack'[Len(stack)]
                          callee == stack'[Len(stack) + 1]
                      IN  /\ caller.pc = "call"
                          /\ caller.r = Top.r
                          /\ caller.depth = Top.depth
                          /\ callee.pc = "start"
                          /\ callee.r = caller.scattered
                          /\ callee.r # Top.r
                          /\ callee.depth = Top.depth - 1
                \/ /\ stack' = Pop
                   /\ calls' = calls
                   /\ ret' = Black
        /\ (InRayColor /\ Top.pc = "call") =>
             /\ stack' = Pop
             /\ calls' = calls
             /\ world' = world
             /\ \A c \in 1..3 : ret'[c] = RMul(Top.attenuation[c], ret[c]) ]_vars

C2_Witness ==
    /\ pc = "ray"
    /\ stack = <<>>
    /\ Len(path) = 3
    /\ path[1].kind = "scattered"
    /\ path[2].kind = "scattered"
    /\ path[3].kind = "miss"
    /\ ret # Black
    /\ ret # Background(path[3].r)

\* weight of an activation record: what it can still do
FrameWeight(f) ==
    CASE f.pc = "start"   -> 3 * (IF f.depth > 0 THEN f.depth ELSE 0) + 3
      [] f.pc = "scatter" -> 3 * (IF f.depth > 0 THEN f.depth ELSE 0) + 2
      [] OTHER            -> 1

RECURSIVE SumWeights(_)
SumWeights(k) == IF k = 0 THEN 0 ELSE FrameWeight(stack[k]) + SumWeights(k - 1)

\* a natural number that bounds the steps ray_color can still take
Measure == SumWeights(Len(stack))

NestingBounded ==
    /\ Len(stack) <= (IF depth0 > 0 THEN depth0 ELSE 0) + 1
    /\ calls <= (IF depth0 > 0 THEN depth0 ELSE 0) + 1
    /\ Len(stack) <= calls
    /\ \A k \in 1..Len(stack) :
         /\ stack[k].depth = depth0 - (k - 1)
         /\ stack[k].pc \in {"start", "scatter", "call"}
         /\ k < Len(stack) => stack[k].pc = "call"

\* C3: a call of ray_color with starting depth d returns after finitely
\* many steps: every step lowers a natural-number measure that starts at
\* 3 * max(d,0) + 3; a step starts at most one further invocation, each
\* nested invocation has the depth of its caller minus one, there are never
\* more than d + 1 activation records nor more than d + 1 invocations, and
\* while an activation record is left a step is possible.
C3_BoundedRecursion ==
    [][ /\ NestingBounded
        /\ NestingBounded'
        /\ Measure' < Measure
        /\ Measure' >= 0
        /\ Measure <= 3 * (IF depth0 > 0 THEN depth0 ELSE 0) + 3
        /\ calls' <= calls + 1
        /\ Len(stack') <= Len(stack) + 1
        /\ (stack' = <<>>) = (Measure' = 0) ]_vars

C3_Witness ==
    /\ pc = "ray"
    /\ stack = <<>>
    /\ depth0 >= 2
    /\ calls = depth0 + 1
    /\ Len(path) = depth0 + 1
    /\ path[Len(path)].kind = "exhausted"

\* product of the attenuations of invocations k..m-1 times the background
\* seen by invocation m, the last of the chain, when its ray escaped
RECURSIVE PathBound(_)
PathBound(k) ==
    IF k > Len(path) THEN Black
    ELSE CASE path[k].kind = "scattered" -> VMul(path[k].attenuation, PathBound(k + 1))
           [] path[k].kind = "miss"      -> Background(path[k].r)
           [] OTHER                      -> Black

AlbedosInUnit ==
    \A m \in DOMAIN Materials : \A c \in 1..3 : InUnit(Materials[m].albedo[c])

\* C4: with the materials of main (every attenuation component in [0,1]),
\* every value returned by a ray_color invocation has components >= 0, <= 1
\* and <= the background colour of the escaping ray of its chain times the
\* product of the attenuations before it (0 when no ray escapes).
C4_NoEnergyCreation ==
    Returned =>
        \A c \in 1..3 :
            /\ RLe(Zero, ret[c])
            /\ RLe(ret[c], One)
            /\ RLe(ret[c], PathBound(Len(stack) + 1)[c])

C4_Witness ==
    /\ AlbedosInUnit
    /\ pc = "ray"
    /\ stack = <<>>
    /\ Len(path) = 3
    /\ path[3].kind = "miss"
    /\ \A c \in 1..3 : RLt(Zero, ret[c]) /\ RLt(ret[c], Background(path[3].r)[c])

\* C5: the coordinates handed to cam.get_ray lie in [0,1].
C5_CoordsInUnit == pc = "get_ray" => (InUnit(u) /\ InUnit(v))

PixelAt(k) == <<"pixel", (k - 1) % image_width, (image_height - 1) - ((k - 1) \div image_width)>>

\* C6: nothing is written before the header; the header is the first entry
\* of the output and the only header; the k-th entry after it is the pixel
\* of column (k-1) mod width and of row height-1 - (k-1) div width (rows
\* from the top down, columns left to right); the run ends with exactly
\* width * height pixels written and writes nothing after the last one.
C6_OutputOrder ==
    /\ pc \in {"world", "header"} => out = <<>>
    /\ pc \notin {"world", "header"} =>
         /\ Len(out) >= 1
         /\ out[1] = <<"P3", image_width, image_height, 255>>
         /\ Len(out) <= 1 + image_width * image_height
         /\ \A k \in 2..Len(out) : out[k] = PixelAt(k - 1)
    /\ pc \in {"sample", "get_ray", "ray"} =>
         Len(out) = 1 + (image_height - 1 - j) * image_width + i
    /\ pc = "done" => Len(out) = 1 + image_width * image_height
    /\ Len(out) = 1 + image_width * image_height =>
         (pc = "done" \/ (pc = "pixel" /\ i = image_width /\ j = 0) \/ (pc = "row" /\ j < 0))

C6_Witness ==
    /\ pc = "done"
    /\ Len(out) = 1 + image_width * image_height
    /\ out[2] = <<"pixel", 0, image_height - 1>>
    /\ out[Len(out)] = <<"pixel", image_width - 1, 0>>

\* C7: once main has left the scene construction the world holds exactly
\* the spheres of the world.add calls, and no later step (of the render loop
\* or of ray_color at any depth) changes it.
C7_WorldFrozen ==
    [][ /\ pc # "world" => (world = SceneSpheres /\ world' = world)
        /\ world' # world => (pc = "world" /\ pc' = "world" /\ stack = <<>> /\ out = <<>>) ]_vars

C7_Witness ==
    /\ pc = "ray"
    /\ Len(stack) = 2
    /\ Len(out) > 2
    /\ world = SceneSpheres

RECURSIVE SumColors(_)
SumColors(q) ==
    IF q = <<>> THEN Vec(<<0, 1>>, <<0, 1>>, <<0, 1>>)
    ELSE VAdd(SumColors(SubSeq(q, 1, Len(q) - 1)), q[Len(q)].value)

\* C8: while a pixel is sampled its accumulator is the sum of the results of
\* the s top-level ray_color calls made for this pixel so far ((0,0,0) for
\* s = 0), each started with depth max_depth; write_colour receives the sum
\* of exactly samples_per_pixel of them, together with samples_per_pixel.
C8_PixelAccumulator ==
    /\ pc \in {"sample", "get_ray", "ray"} =>
         /\ Len(samples) = s
         /\ s <= samples_per_pixel
         /\ pixel_color = SumColors(samples)
         /\ \A k \in 1..Len(samples) : samples[k].depth = max_depth
    /\ pc \in {"get_ray", "ray"} => s < samples_per_pixel
    /\ pc = "ray" => depth0 = max_depth
    /\ written # NoWrite =>
         /\ pc = "pixel"
         /\ Len(samples) = samples_per_pixel
         /\ written.samples_per_pixel = samples_per_pixel
         /\ written.pixel_color = SumColors(samples)

C8_Witness ==
    /\ pc = "pixel"
    /\ written # NoWrite
    /\ Len(out) >= 3
    /\ Len(samples) = samples_per_pixel
    /\ samples[1].value # Black
    /\ samples[1].value # samples[2].value
    /\ written.pixel_color = VAdd(samples[1].value, samples[2].value)

\* C9 as claimed: no step changes the origin or the direction of a ray that
\* has been constructed, be it the ray r of an invocation or its local ray
\* scattered.
C9_RaysImmutable ==
    [][ \A k \in 1..Len(stack) :
          k <= Len(stack') =>
            /\ stack'[k].r = stack[k].r
            /\ stack[k].pc \in {"scatter", "call"} =>
                  stack'[k].scattered = stack[k].scattered ]_vars

\* C9 amended: the hit point at(t) is origin + t * direction, component by
\* component; the ray r of an invocation keeps its origin and direction as
\* long as the invocation lasts, and so does its local ray scattered once
\* scatter has filled it in (it is default-constructed before and
\* overwritten by scatter).
C9_AtAndConstRay ==
    [][ \A k \in 1..Len(stack) :
          /\ stack[k].pc \in {"scatter", "call"} =>
               \A c \in 1..3 :
                  stack[k].rec.p[c] =
                     RAdd(stack[k].r.m_origin[c], RMul(stack[k].rec.t, stack[k].r.m_direction[c]))
          /\ k <= Len(stack') =>
               /\ stack'[k].r = stack[k].r
               /\ stack[k].pc = "call" => stack'[k].scattered = stack[k].scattered
               /\ stack[k].pc = "scatter" => stack[k].scattered = DefaultRay ]_vars

C9_Witness ==
    /\ pc = "ray"
    /\ Len(stack) = 2
    /\ stack[1].pc = "call"
    /\ stack[1].rec.t = <<2, 1>>
    /\ stack[1].scattered # DefaultRay
    /\ stack[1].scattered.m_origin = stack[1].rec.p
    /\ stack[1].rec.p # VAdd(stack[1].r.m_origin, stack[1].r.m_direction)
    /\ stack[2].pc = "scatter"

\* a value no colour equals
NoColor == Vec(<<-1, 1>>, <<-1, 1>>, <<-1, 1>>)

\* the explicit loop: accumulator acc, depth counter ctr, consuming the
\* hit and scatter outcomes of the invocations k, k+1, ... in order
RECURSIVE Loop(_, _, _)
Loop(k, acc, ctr) ==
    IF ctr <= 0 THEN Vec(<<0, 1>>, <<0, 1>>, <<0, 1>>)
    ELSE IF k > Len(path) THEN NoColor
    ELSE CASE path[k].kind = "miss"      -> VMul(acc, Background(path[k].r))
           [] path[k].kind = "absorbed"  -> Vec(<<0, 1>>, <<0, 1>>, <<0, 1>>)
           [] path[k].kind = "scattered" -> Loop(k + 1, VMul(acc, path[k].attenuation), ctr - 1)
           [] OTHER                      -> NoColor

\* C10: when a top-level ray_color call has returned, its value is the value
\* the explicit loop computes from the same starting depth and the same
\* sequence of hit and scatter outcomes.
C10_LoopEquivalence ==
    (pc = "ray" /\ stack = <<>> /\ path # <<>>) =>
        ret = Loop(1, Vec(<<1, 1>>, <<1, 1>>, <<1, 1>>), depth0)

C10_Witness ==
    /\ pc = "ray"
    /\ stack = <<>>
    /\ depth0 = 3
    /\ Len(path) = 3
    /\ path[1].kind = "scattered"
    /\ path[2].kind = "scattered"
    /\ path[1].attenuation # path[2].attenuation
    /\ path[1].attenuation # White
    /\ path[2].attenuation # White
    /\ path[3].kind = "miss"
    /\ \A c \in 1..3 : RLt(Zero, ret[c])

====
